---- MODULE Spec2Model ----
(***************************************************************************)
(* A model of nxsim: the agent registries of nxsim/core.py and             *)
(* nxsim/environment.py, the graph-level agent API of nxsim/agents.py, the *)
(* monitors of nxsim/monitors.py, and the simpy event queue they all run   *)
(* on.  The graph is a networkx 1.x Graph (the code uses G.node[...],      *)
(* nodes_iter and add_node(n, attr_dict)): a dict `node` of attribute      *)
(* dicts and a dict `adj` of adjacency dicts.  The legacy agents of        *)
(* agents.py reach the graph as environment.G; the model takes that to be  *)
(* the graph NetworkEnvironment keeps as its structure.                    *)
(***************************************************************************)
EXTENDS Integers, Sequences, FiniteSets, TLC

\* ------------------------------------------------------------- bounds
\* keys 0..MaxKey-1 of the registries explored by Spec
MaxKey == 2
\* registry operations per behaviour of Spec
MaxOps == 3
\* state identifiers 1..NumStateIds (1 is "A", 2 is "B")
NumStateIds == 2

\* ---------------------------------------------------------- constants
\* the value None: no agent / no object
NoAgent == 0
\* simpy's event priorities: process() schedules Initialize URGENT, timeout() NORMAL
URGENT == 0
NORMAL == 1
\* agent_id=None, and "no key" in the record of an operation
NoId == -1

Keys == 0 .. (MaxKey - 1)
StateIds == 1 .. NumStateIds
Variants == {"core_flat", "core_net", "env_flat", "env_net"}

VARIABLES
  variant,    \* which environment class the behaviour is about
  node,       \* flat: the dict `structure`; graph: G.node (node -> attribute dict)
  adj,        \* graph: G.adj, node -> set of neighbour nodes
  adjAgent,   \* graph: the entry adj[n]['agent'] (NoAgent when adj[n] has no such key)
  agents,     \* every agent object created so far, by handle 1..Len(agents)
  queue,      \* simpy's event queue
  eid,        \* simpy's event counter (the tie-break of the queue)
  now,        \* env.now
  pc,         \* "build", "run", "done" (run returned) or "failed" (run raised)
  until,      \* the argument of run(until)
  monitor,    \* the StateMonitor: its interval, tracked states, tally and liveness
  scen,       \* the inputs of a simulation run (SpecRun)
  last,       \* the operation that produced this state, its arguments and outcome
  nops        \* operations performed so far

vars == <<variant, node, adj, adjAgent, agents, queue, eid, now, pc, until,
          monitor, scen, last, nops>>

\* ------------------------------------------------------------- states
\* A State object: its identifier and which object it is (ref 0 is the shared
\* module-level instance, ref h > 0 the private copy owned by agent h).
State(i) == [id |-> i, ref |-> 0]
NoState == [id |-> 0, ref |-> 0]

\* copy.deepcopy of a State for agent h: same identifier, another object
DeepCopy(st, h) == IF st = NoState THEN NoState ELSE [id |-> st.id, ref |-> h]

\* `a is b`
StateIs(a, b) == a = b

\* `a == b` on States: by identifier alone
StateEq(a, b) == a.id = b.id

\* ------------------------------------------------------------- values
\* What a dict of the structure holds under a key.
NoneVal == [kind |-> "none", agent |-> NoAgent]
DictVal(h) == [kind |-> "dict", agent |-> h]
ObjVal(h) == [kind |-> "obj", agent |-> h]

Put(f, k, v) == [x \in (DOMAIN f) \cup {k} |-> IF x = k THEN v ELSE f[x]]
Drop(f, k) == [x \in (DOMAIN f) \ {k} |-> f[x]]

RECURSIVE SortedSeq(_)
SortedSeq(S) ==
  IF S = {} THEN <<>>
  ELSE LET m == CHOOSE x \in S : \A y \in S : x <= y
       IN <<m>> \o SortedSeq(S \ {m})

\* ------------------------------------------------------- environment
\* The environment as one value, so that a handler's calls can be chained.
Env ==
  [variant |-> variant, node |-> node, adj |-> adj, adjAgent |-> adjAgent,
   agents |-> agents, queue |-> queue, eid |-> eid, now |-> now, err |-> "ok"]

Raise(R, e) == [R EXCEPT !.err = e]

\* simpy: Environment.schedule(event, priority, delay)
Schedule(R, t, prio, kind, h) ==
  [R EXCEPT !.queue = @ \cup {[t |-> t, prio |-> prio, eid |-> R.eid,
                               kind |-> kind, h |-> h]},
            !.eid = @ + 1]

\* self.process(agent.run()): agent.run() is evaluated first and raises when the
\* subclass did not override it; otherwise the new process starts at env.now.
ProcessRun(R, h) ==
  IF R.agents[h].beh = "none" THEN Raise(R, "NotImplementedError")
  ELSE Schedule(R, R.now, URGENT, "agent", h)

\* An agent object of a class that only stores its fields (the agents the core
\* environments are given).
NewDetachedAgent(R, uid, st, beh) ==
  [R EXCEPT !.agents = Append(@, [id |-> uid, state |-> st, beh |-> beh])]

\* agents.BaseAgent.__init__: stores the fields and registers its own process.
NewBaseAgent(R, uid, st, beh) ==
  ProcessRun(NewDetachedAgent(R, uid, st, beh), Len(R.agents) + 1)

\* The agent class that goes with each environment.
NewAgent(R, uid, st, beh) ==
  IF R.variant = "env_net" THEN NewBaseAgent(R, uid, st, beh)
  ELSE NewDetachedAgent(R, uid, st, beh)

\* ---------------------------------------------------- __setitem__
CoreSetItem(R, key, h) ==
  IF key \in DOMAIN R.node THEN Raise(R, "AssertionError")
  ELSE ProcessRun([R EXCEPT !.node = Put(@, key, ObjVal(h))], h)

CoreNetSetItem(R, node_id, h) ==
  ProcessRun([R EXCEPT !.node = Put(@, node_id, ObjVal(h))], h)

EnvSetItem(R, key, h) ==
  ProcessRun([R EXCEPT !.node = Put(@, key, ObjVal(h))], h)

\* self.structure[node_id]['agent'] = agent: G[n] is the adjacency dict of n
EnvNetSetItem(R, node_id, h) ==
  IF node_id \notin DOMAIN R.adj THEN Raise(R, "KeyError")
  ELSE ProcessRun([R EXCEPT !.adjAgent = Put(@, node_id, h)], h)

SetItem(R, key, h) ==
  CASE R.variant = "core_flat" -> CoreSetItem(R, key, h)
    [] R.variant = "core_net" -> CoreNetSetItem(R, key, h)
    [] R.variant = "env_flat" -> EnvSetItem(R, key, h)
    [] R.variant = "env_net" -> EnvNetSetItem(R, key, h)

\* ---------------------------------------------------- __getitem__
GetItem(R, key) ==
  CASE R.variant \in {"core_flat", "env_flat", "core_net"} ->
         IF key \in DOMAIN R.node THEN [err |-> "ok", val |-> R.node[key]]
         ELSE [err |-> "KeyError", val |-> NoneVal]
    [] R.variant = "env_net" ->
         IF key \in DOMAIN R.node /\ R.node[key].kind = "dict"
            /\ R.node[key].agent # NoAgent
         THEN [err |-> "ok", val |-> ObjVal(R.node[key].agent)]
         ELSE [err |-> "KeyError", val |-> NoneVal]

\* ---------------------------------------------------- __delitem__
\* networkx Graph.remove_node(n).  `done` are the neighbours whose adjacency was
\* cleaned before the loop met a key of adj[n] that is no node (the 'agent' entry
\* NetworkEnvironment.__setitem__ leaves there); dict order decides which.
RemoveNode(R, n, done) ==
  IF n \notin DOMAIN R.adj \/ n \notin DOMAIN R.node THEN Raise(R, "NetworkXError")
  ELSE IF R.adjAgent[n] # NoAgent
  THEN [R EXCEPT !.node = Drop(@, n),
                 !.adj = [u \in DOMAIN @ |->
                            IF u \in done THEN @[u] \ {n} ELSE @[u]],
                 !.err = "KeyError"]
  ELSE [R EXCEPT !.node = Drop(@, n),
                 !.adj = [u \in (DOMAIN @) \ {n} |-> @[u] \ {n}],
                 !.adjAgent = Drop(@, n)]

\* a delete that ignores an absent key
FlatDelItemSilent(R, key) ==
  IF key \in DOMAIN R.node THEN [R EXCEPT !.node = Drop(@, key)] ELSE R

FlatDelItem(R, key) ==
  IF key \in DOMAIN R.node THEN [R EXCEPT !.node = Drop(@, key)]
  ELSE Raise(R, "KeyError")

DelItem(R, key, done) ==
  IF R.variant \in {"core_flat", "env_flat"} THEN FlatDelItem(R, key)
  ELSE RemoveNode(R, key, done)

\* every `done` the loop of remove_node can have reached
DoneSets(R, n) ==
  IF R.variant \in {"core_net", "env_net"} /\ n \in DOMAIN R.adj
     /\ n \in DOMAIN R.node /\ R.adjAgent[n] # NoAgent
  THEN SUBSET (R.adj[n] \ {n})
  ELSE {{}}

\* ------------------------------------------------------- queries
\* the `agents` property: the values in the order of the keys
AgentsProp(R) ==
  CASE R.variant \in {"core_flat", "env_flat", "core_net"} ->
         LET ks == SortedSeq(DOMAIN R.node)
         IN [err |-> "ok", val |-> [i \in 1 .. Len(ks) |-> R.node[ks[i]]]]
    [] R.variant = "env_net" ->
         LET ks == SortedSeq(DOMAIN R.node)
         IN IF \E k \in DOMAIN R.node : R.node[k].agent = NoAgent
            THEN [err |-> "KeyError", val |-> <<>>]
            ELSE [err |-> "ok",
                  val |-> [i \in 1 .. Len(ks) |-> ObjVal(R.node[ks[i]].agent)]]

\* `agent.state` of a value of the structure
HasState(v) == v.kind = "obj"

\* the comparison of the comprehension negated
RECURSIVE SelectValsNegated(_, _, _, _)
SelectValsNegated(R, vals, st, byIs) ==
  IF vals = <<>> THEN <<>>
  ELSE LET s == R.agents[Head(vals).agent].state
           keep == IF byIs THEN ~StateIs(s, st) ELSE ~StateEq(s, st)
       IN (IF keep THEN <<Head(vals)>> ELSE <<>>)
          \o SelectValsNegated(R, Tail(vals), st, byIs)

\* [agent for agent in vals if agent.state == st]  (byIs: `is` instead of ==)
RECURSIVE SelectVals(_, _, _, _)
SelectVals(R, vals, st, byIs) ==
  IF vals = <<>> THEN <<>>
  ELSE LET s == R.agents[Head(vals).agent].state
           keep == IF byIs THEN StateIs(s, st) ELSE StateEq(s, st)
       IN (IF keep THEN <<Head(vals)>> ELSE <<>>)
          \o SelectVals(R, Tail(vals), st, byIs)

\* core.BaseEnvironment.filter(state)
CoreFilter(R, st) ==
  LET a == AgentsProp(R)
  IN IF st = NoState THEN a
     ELSE IF \E i \in 1 .. Len(a.val) : ~HasState(a.val[i])
     THEN [err |-> "AttributeError", val |-> <<>>]
     ELSE [err |-> "ok", val |-> SelectVals(R, a.val, st, FALSE)]

\* environment.NetworkEnvironment.list(state)
EnvNetList(R, st) ==
  LET a == AgentsProp(R)
  IN IF st = NoState \/ a.err # "ok" THEN a
     ELSE [err |-> "ok", val |-> SelectVals(R, a.val, st, TRUE)]

\* filter(state) of the registry; environment.BaseEnvironment defines none
HasFilter(R) == R.variant # "env_flat"

Filter(R, st) ==
  CASE R.variant \in {"core_flat", "core_net"} -> CoreFilter(R, st)
    [] R.variant = "env_net" -> EnvNetList(R, st)
    [] R.variant = "env_flat" -> [err |-> "AttributeError", val |-> <<>>]

\* len(environment)
EnvLen(R) ==
  IF R.variant = "env_net"
  THEN [err |-> AgentsProp(R).err, val |-> Len(AgentsProp(R).val)]
  ELSE [err |-> "ok", val |-> Cardinality(DOMAIN R.node)]

\* ------------------------------------------------------- populate
\* core: for uid in fill_list: self.__setitem__(uid, agent_constructor(uid, self, state=...))
RECURSIVE PopulateLoop(_, _, _)
PopulateLoop(R, uids, st) ==
  IF uids = <<>> \/ R.err # "ok" THEN R
  ELSE LET R1 == NewAgent(R, Head(uids), st, "noop")
           R2 == IF R1.err = "ok" THEN SetItem(R1, Head(uids), Len(R1.agents)) ELSE R1
       IN PopulateLoop(R2, Tail(uids), st)

\* fill_list = set(self.structure.keys()) - set(exclude)
FillList(R, exclude) == (DOMAIN R.node) \ exclude

\* The orders in which `for uid in fill_list` can enumerate the set S.  A set of
\* small ints is enumerated in increasing order; a set of strings in the order of
\* their hashes, which the interpreter salts anew in every process.
IterOrders(S, keys) ==
  IF keys = "int" THEN {SortedSeq(S)}
  ELSE {o \in [1 .. Cardinality(S) -> S] :
          \A i, j \in 1 .. Cardinality(S) : o[i] = o[j] => i = j}

\* BaseEnvironment.populate / BaseNetworkEnvironment.populate, the loop taking
\* the uids in the given order
Populate(R, st, order) == PopulateLoop(R, order, st)

\* initial_states[i] of the simulation: states alternate by node parity, or all "A"
InitialState(mode, i) == IF mode = "alternate" THEN State(1 + (i % 2)) ELSE State(1)

\* simulation.setup_network_agents:
\*   G.node[i]['agent'] = agent_type(environment, agent_id=i, state=deepcopy(states[i]))
RECURSIVE SetupLoop(_, _, _, _)
SetupLoop(R, ids, mode, beh) ==
  IF ids = <<>> \/ R.err # "ok" THEN R
  ELSE LET i == Head(ids)
           h == Len(R.agents) + 1
           R1 == NewBaseAgent(R, i, DeepCopy(InitialState(mode, i), h), beh[i])
           R2 == IF R1.err = "ok" THEN [R1 EXCEPT !.node[i] = DictVal(h)] ELSE R1
       IN SetupLoop(R2, Tail(ids), mode, beh)

SetupNetworkAgents(R, mode, beh) ==
  SetupLoop(R, SortedSeq(DOMAIN R.node), mode, beh)

\* ------------------------------------------------------- initial graphs
\* a ring on the nodes 0..n-1 (one edge for n = 2, no edge for n < 2)
Ring(n) == [i \in 0 .. (n - 1) |-> {(i + 1) % n, (i + n - 1) % n} \ {i}]
EmptyAttrs(n) == [i \in 0 .. (n - 1) |-> DictVal(NoAgent)]
NoEntries(n) == [i \in 0 .. (n - 1) |-> NoAgent]

\* `after`: how many agents had been constructed when the monitor was registered
NoMonitor ==
  [on |-> FALSE, interval |-> 0, states |-> <<>>, tally |-> <<>>, after |-> 0]
NoScenario ==
  [install |-> "none", mode |-> "none", start |-> 0, beh0 |-> "noop",
   behOther |-> "noop", envAgent |-> FALSE, logger |-> FALSE, keys |-> "int"]
NoOp == [op |-> "init", key |-> -1, agent |-> NoAgent, err |-> "ok"]

\* the registry classes right after construction: a graph of MaxKey - 1 or MaxKey
\* nodes without agents, a dict of no or MaxKey keys holding None, an empty dict
Init ==
  /\ variant \in Variants
  /\ CASE variant \in {"core_net", "env_net"} ->
            \E n \in {MaxKey - 1, MaxKey} :
              node = EmptyAttrs(n) /\ adj = Ring(n) /\ adjAgent = NoEntries(n)
       [] variant = "core_flat" ->
            \E n \in {0, MaxKey} :
              node = [i \in 0 .. (n - 1) |-> NoneVal] /\ adj = <<>> /\ adjAgent = <<>>
       [] variant = "env_flat" ->
            node = <<>> /\ adj = <<>> /\ adjAgent = <<>>
  /\ agents = <<>>
  /\ queue = {}
  /\ eid = 0
  /\ now = 0
  /\ pc = "build"
  /\ until = 0
  /\ monitor = NoMonitor
  /\ scen \in {[NoScenario EXCEPT !.keys = k] :
                k \in IF variant = "core_net" /\ Cardinality(DOMAIN node) = MaxKey
                      THEN {"int", "str"} ELSE {"int"}}
  /\ last = NoOp
  /\ nops = 0

\* the environment after a handler returned or raised
Commit(R, l) ==
  /\ node' = R.node
  /\ adj' = R.adj
  /\ adjAgent' = R.adjAgent
  /\ agents' = R.agents
  /\ queue' = R.queue
  /\ eid' = R.eid
  /\ now' = R.now
  /\ last' = [l EXCEPT !.err = R.err]
  /\ nops' = nops + 1

\* the states a new agent is given: the shared first or last State, a private copy
\* of the first, or None (the environment.py registries never read the state of an
\* agent that was set: the first State or None there)
AgentStates(h) ==
  IF variant \in {"core_flat", "core_net"}
  THEN {State(1), State(NumStateIds), DeepCopy(State(1), h), NoState}
  ELSE {State(1), NoState}

\* env[key] = Agent(key, state)
SetItemOp ==
  \E key \in Keys, st \in AgentStates(Len(agents) + 1) :
    /\ nops < MaxOps
    /\ LET h == Len(agents) + 1
           R1 == NewAgent(Env, key, st, "noop")
       IN Commit(SetItem(R1, key, h), [NoOp EXCEPT !.op = "set", !.key = key, !.agent = h])
    /\ UNCHANGED <<variant, pc, until, monitor, scen>>

\* the agents the registry holds
Registered(R) ==
  ({R.node[k].agent : k \in DOMAIN R.node} \cup
   {R.adjAgent[k] : k \in DOMAIN R.adjAgent}) \ {NoAgent}

\* env[key] = a, for the agent a that the preceding call registered, under the
\* same key or under the next one
SetAgainOp ==
  \E key \in Keys, h \in Registered(Env) :
    /\ nops < MaxOps
    /\ last.op = "set" /\ last.agent = h
    /\ key \in {last.key, (last.key + 1) % MaxKey}
    /\ Commit(SetItem(Env, key, h), [NoOp EXCEPT !.op = "setagain", !.key = key, !.agent = h])
    /\ UNCHANGED <<variant, pc, until, monitor, scen>>

\* del env[key]
DelItemOp ==
  \E key \in Keys : \E done \in DoneSets(Env, key) :
    /\ nops < MaxOps
    /\ Commit(DelItem(Env, key, done), [NoOp EXCEPT !.op = "del", !.key = key])
    /\ UNCHANGED <<variant, pc, until, monitor, scen>>

\* env.populate(agent_constructor, initial_agent_state, exclude)
PopulateOp ==
  \E exclude \in {{}, {MaxKey - 1}} :
    \E order \in IterOrders(FillList(Env, exclude), scen.keys) :
      /\ nops < MaxOps
      /\ variant \in {"core_flat", "core_net"}
      /\ Commit(Populate(Env, State(NumStateIds), order),
                [NoOp EXCEPT !.op = "populate",
                             !.key = IF exclude = {} THEN NoId ELSE CHOOSE k \in exclude : TRUE])
      /\ UNCHANGED <<variant, pc, until, monitor, scen>>

\* simulation.setup_network_agents() on the graph of a NetworkEnvironment
SetupOp ==
  \E mode \in {"alternate", "same"} :
    /\ nops < MaxOps
    /\ variant = "env_net"
    /\ Commit(SetupNetworkAgents(Env, mode, [i \in DOMAIN node |-> "noop"]),
              [NoOp EXCEPT !.op = "setup"])
    /\ UNCHANGED <<variant, pc, until, monitor, scen>>

Next == SetItemOp \/ SetAgainOp \/ DelItemOp \/ PopulateOp \/ SetupOp

Spec == Init /\ [][Next]_vars

\* ------------------------------------------------------- agents.py
\* BaseAgent.TIMESTEP_DEFAULT, the timeout an agent's run yields
TIMESTEP_DEFAULT == 1
\* BaseAgent.get_agents(state_id, limit_neighbors); Graph.neighbors(n) is
\* list(adj[n]), which holds the key 'agent' once __setitem__ put it there
GetAgents(R, h, state_id, limit_neighbors) ==
  LET n == R.agents[h].id
      ids == IF limit_neighbors THEN R.adj[n] ELSE DOMAIN R.node
      hs == [i \in ids |-> R.node[i].agent]
      ks == SortedSeq(ids)
      all == [j \in 1 .. Len(ks) |-> ObjVal(hs[ks[j]])]
  IN IF limit_neighbors /\ n \notin DOMAIN R.adj
     THEN [err |-> "NetworkXError", val |-> <<>>]
     ELSE IF (limit_neighbors /\ R.adjAgent[n] # NoAgent)
             \/ (\E i \in ids : i \notin DOMAIN R.node \/ R.node[i].agent = NoAgent)
     THEN [err |-> "KeyError", val |-> <<>>]
     ELSE IF state_id = 0 THEN [err |-> "ok", val |-> all]
     ELSE IF \E i \in ids : R.agents[hs[i]].state = NoState
     THEN [err |-> "TypeError", val |-> <<>>]
     ELSE [err |-> "ok", val |-> SelectVals(R, all, State(state_id), FALSE)]

\* BaseAgent.get_neighboring_agents(state_id)
GetNeighboringAgents(R, h, state_id) == GetAgents(R, h, state_id, TRUE)

\* BaseAgent.remove_node(agent_id)
AgentRemoveNode(R, agent_id, done) == RemoveNode(R, agent_id, done)

\* BaseAgent.die()
Die(R, h, done) == AgentRemoveNode(R, R.agents[h].id, done)

\* BaseEnvironmentAgent.add_node(agent_type, state): the id is the node count
AddNode(R, st, beh) ==
  LET agent_id == Cardinality(DOMAIN R.node)
      h == Len(R.agents) + 1
      R1 == NewBaseAgent(R, agent_id, st, beh)
  IN IF R1.err # "ok" THEN R1
     ELSE IF agent_id \notin DOMAIN R1.node
     THEN [R1 EXCEPT !.node = Put(@, agent_id, DictVal(h)),
                     !.adj = Put(@, agent_id, {}),
                     !.adjAgent = Put(@, agent_id, NoAgent)]
     ELSE [R1 EXCEPT !.node[agent_id] = DictVal(h)]

\* BaseLoggingAgent.__init__: BaseAgent.__init__ registers run(), and the
\* constructor registers run() once more after setting its own fields
NewLoggingAgent(R, logging_interval) ==
  LET h == Len(R.agents) + 1
      R1 == [R EXCEPT !.agents =
               Append(@, [id |-> NoId, state |-> NoState, beh |-> "logger",
                          interval |-> logging_interval, state_history |-> <<>>])]
      R2 == ProcessRun(R1, h)
  IN IF R2.err = "ok" THEN ProcessRun(R2, h) ELSE R2

\* BaseLoggingAgent.run, one pass: state_history[env.now] =
\*   {i: deepcopy(node[1]['agent'].state) for i, node in enumerate(G.nodes(data=True))}
LoggingRun(R, h) ==
  LET ks == SortedSeq(DOMAIN R.node)
  IN IF \E k \in DOMAIN R.node : R.node[k].agent = NoAgent THEN Raise(R, "KeyError")
     ELSE [R EXCEPT !.agents[h].state_history =
             Put(@, R.now, [i \in 0 .. (Len(ks) - 1) |->
                              DeepCopy(R.agents[R.node[ks[i + 1]].agent].state, h)])]

\* an assignment that clears the attribute when it already holds the value
SetStateToggling(R, h, st) ==
  [R EXCEPT !.agents[h].state = IF @ = st THEN NoState ELSE st]

\* an assignment that is undone before anyone reads the attribute
SetStateRolledBack(R, h, st) == R

\* agent.state = st: `state` is a plain instance attribute of BaseAgent
SetState(R, h, st) == [R EXCEPT !.agents[h].state = st]

\* ------------------------------------------------------- behaviours
\* One resumption of an agent's run, up to its next yield.  The run procedures are
\* supplied by the simulation's author; these use the calls agents.py offers:
\*   noop   yields
\*   flip   assigns the next State to itself, yields
\*   die    from the second resumption on: self.die(), returns
\*   kill   at the second resumption: self.remove_node(self.id + 1); yields
\*   query  self.get_neighboring_agents(), yields
\*   adder  (environment agent) at the second resumption: self.add_node(...); yields
\*   logger BaseLoggingAgent.run
Body(R, h, done) ==
  LET a == R.agents[h]
      later == R.now > scen.start
      second == R.now = scen.start + TIMESTEP_DEFAULT
  IN CASE a.beh = "noop" -> R
       [] a.beh = "flip" ->
            SetState(R, h, State((a.state.id % NumStateIds) + 1))
       [] a.beh = "die" -> IF later THEN Die(R, h, done) ELSE R
       [] a.beh = "kill" -> IF second THEN AgentRemoveNode(R, a.id + 1, done) ELSE R
       [] a.beh = "query" -> Raise(R, GetNeighboringAgents(R, h, 0).err)
       [] a.beh = "adder" -> IF second THEN AddNode(R, State(1), scen.behOther) ELSE R
       [] a.beh = "logger" -> LoggingRun(R, h)

\* the timeout the run procedure of agent h yields
Delay(R, h) ==
  IF R.agents[h].beh = "logger" THEN R.agents[h].interval ELSE TIMESTEP_DEFAULT

\* the run procedure returned instead of yielding
Returned(R, h) == R.agents[h].beh = "die" /\ R.now > scen.start

\* the node a resumption of agent h may remove
Target(R, h) ==
  IF R.agents[h].beh = "kill" THEN R.agents[h].id + 1 ELSE R.agents[h].id

\* ------------------------------------------------------- monitors.py
\* StateMonitor(environment, states, interval): BaseMonitor.__init__ registers run()
StateMonitor(R, states, interval) ==
  Schedule(R, R.now, URGENT, "monitor", NoAgent)

\* a timeout that fires `delay` before the current time
TimeoutEarlier(R, delay, kind, h) == Schedule(R, R.now - delay, NORMAL, kind, h)

\* process.timeout(delay) yielded at time R.now by process (kind, h)
Timeout(R, delay, kind, h) == Schedule(R, R.now + delay, NORMAL, kind, h)

\* the sampling loop skipping a state nobody holds
RECURSIVE SampleStatesSkipZero(_, _, _)
SampleStatesSkipZero(R, states, tally) ==
  IF states = <<>> THEN [err |-> "ok", tally |-> tally]
  ELSE LET r == EnvNetList(R, Head(states))
       IN IF r.err # "ok" THEN [err |-> r.err, tally |-> tally]
          ELSE SampleStatesSkipZero(R, Tail(states),
                 IF r.val = <<>> THEN tally
                 ELSE [tally EXCEPT ![Head(states).id] = Append(@, Len(r.val))])

\* for state in self.states: tally[str(state)].append(len(self.env.list(state=state)))
RECURSIVE SampleStates(_, _, _)
SampleStates(R, states, tally) ==
  IF states = <<>> THEN [err |-> "ok", tally |-> tally]
  ELSE LET r == EnvNetList(R, Head(states))
       IN IF r.err # "ok" THEN [err |-> r.err, tally |-> tally]
          ELSE SampleStates(R, Tail(states),
                            [tally EXCEPT ![Head(states).id] = Append(@, Len(r.val))])

\* the monitor waiting one time unit more than its interval
MonitorRunLate(R, mon) ==
  LET r == SampleStates(R, mon.states, mon.tally)
  IN [env |-> IF r.err = "ok" THEN Timeout(R, mon.interval + 1, "monitor", NoAgent)
              ELSE Raise(R, r.err),
      tally |-> r.tally]

\* a sampling step that cancels the pending agent processes
MonitorRunCancelling(R, mon) ==
  LET r == SampleStates(R, mon.states, mon.tally)
      R1 == [R EXCEPT !.queue = {e \in @ : e.kind # "agent"}]
  IN [env |-> IF r.err = "ok" THEN Timeout(R1, mon.interval, "monitor", NoAgent)
              ELSE Raise(R, r.err),
      tally |-> r.tally]

\* one resumption of StateMonitor.run: sample every state, yield timeout(interval)
MonitorRun(R, mon) ==
  LET r == SampleStates(R, mon.states, mon.tally)
  IN [env |-> IF r.err = "ok" THEN Timeout(R, mon.interval, "monitor", NoAgent)
              ELSE Raise(R, r.err),
      tally |-> r.tally]

\* ------------------------------------------------------- simpy
\* the event simpy pops next: least (time, priority, event id)
Before(e, f) ==
  \/ e.t < f.t
  \/ e.t = f.t /\ e.prio < f.prio
  \/ e.t = f.t /\ e.prio = f.prio /\ e.eid <= f.eid
NextEvent(q) == CHOOSE e \in q : \A f \in q : Before(e, f)

\* ------------------------------------------------------- a simulation run
\* nodes of the graphs SpecRun starts from
MaxNodes == 4
\* env.run(until) is called with until in start+1 .. start+MaxSpan
MaxSpan == 3
\* the monitor's interval is in 1 .. MaxInterval
MaxInterval == 2
\* initial_time is 0 or MaxStart
MaxStart == 1

Behaviours0 == {"noop", "flip", "die", "kill", "query"}
BehavioursOther == {"noop", "query"}

\* the behaviour of the agent of node i
BehOf(i) == IF i = 0 THEN scen.beh0 ELSE scen.behOther

\* NetworkEnvironment(graph, initial_time) for a ring, and the inputs of the run
InitRun ==
  /\ variant = "env_net"
  /\ \E n \in 2 .. MaxNodes :
       node = EmptyAttrs(n) /\ adj = Ring(n) /\ adjAgent = NoEntries(n)
  /\ agents = <<>>
  /\ queue = {}
  /\ eid = 0
  /\ scen \in [install : {"setitem", "setup"}, mode : {"alternate"},
               start : {0, MaxStart}, beh0 : Behaviours0,
               behOther : BehavioursOther, envAgent : BOOLEAN, logger : BOOLEAN,
               keys : {"int"}]
  /\ now = scen.start
  /\ until \in (now + 1) .. (now + MaxSpan)
  /\ pc = "build"
  /\ monitor = NoMonitor
  /\ last = NoOp
  /\ nops = 0

Installed == \A i \in DOMAIN adj : adjAgent[i] # NoAgent

\* env[i] = agent_type(environment=env, agent_id=i, state=states[i]) for the next node
InstallItem ==
  /\ pc = "build"
  /\ scen.install = "setitem"
  /\ LET i == CHOOSE k \in DOMAIN adj :
                adjAgent[k] = NoAgent /\ \A j \in DOMAIN adj : adjAgent[j] = NoAgent => k <= j
         h == Len(agents) + 1
         R1 == NewBaseAgent(Env, i, InitialState(scen.mode, i), BehOf(i))
         R2 == SetItem(R1, i, h)
     IN /\ Commit(R2, [NoOp EXCEPT !.op = "set", !.key = i, !.agent = h])
        /\ pc' = IF \A j \in DOMAIN R2.adj : R2.adjAgent[j] # NoAgent THEN "ready" ELSE "build"
  /\ UNCHANGED <<variant, until, monitor, scen>>

\* NetworkSimulation.setup_network_agents()
SetupAgents ==
  /\ pc = "build"
  /\ scen.install = "setup"
  /\ Commit(SetupNetworkAgents(Env, scen.mode, [i \in DOMAIN node |-> BehOf(i)]),
            [NoOp EXCEPT !.op = "setup"])
  /\ pc' = "ready"
  /\ UNCHANGED <<variant, until, monitor, scen>>

\* environment_agent_type(environment=env)
NewEnvironmentAgent ==
  /\ pc = "ready"
  /\ scen.envAgent
  /\ \A h \in 1 .. Len(agents) : agents[h].beh # "adder"
  /\ Commit(NewBaseAgent(Env, NoId, NoState, "adder"), [NoOp EXCEPT !.op = "envagent"])
  /\ UNCHANGED <<variant, pc, until, monitor, scen>>

\* BaseLoggingAgent(environment=env, logging_interval=1), constructed after the
\* environment agent as in run_trial
NewLoggingAgentOp ==
  /\ pc = "ready"
  /\ scen.logger
  /\ \A h \in 1 .. Len(agents) : agents[h].beh # "logger"
  /\ ~scen.envAgent \/ \E h \in 1 .. Len(agents) : agents[h].beh = "adder"
  /\ Commit(NewLoggingAgent(Env, TIMESTEP_DEFAULT), [NoOp EXCEPT !.op = "logger"])
  /\ UNCHANGED <<variant, pc, until, monitor, scen>>

\* StateMonitor(env, states, interval), constructed last
NewStateMonitor ==
  \E interval \in 1 .. MaxInterval :
    /\ pc = "ready"
    /\ ~monitor.on
    /\ ~scen.envAgent \/ \E h \in 1 .. Len(agents) : agents[h].beh = "adder"
    /\ ~scen.logger \/ \E h \in 1 .. Len(agents) : agents[h].beh = "logger"
    /\ LET states == [i \in StateIds |-> State(i)]
       IN /\ monitor' = [on |-> TRUE, interval |-> interval, states |-> states,
                         tally |-> [i \in StateIds |-> <<>>],
                         after |-> Len(agents)]
          /\ Commit(StateMonitor(Env, states, interval), [NoOp EXCEPT !.op = "monitor"])
    /\ UNCHANGED <<variant, pc, until, scen>>

\* env.run(until): simpy schedules the stop event URGENT at `until`
Run ==
  /\ pc = "ready"
  /\ ~scen.envAgent \/ \E h \in 1 .. Len(agents) : agents[h].beh = "adder"
  /\ ~scen.logger \/ \E h \in 1 .. Len(agents) : agents[h].beh = "logger"
  /\ Commit(Schedule(Env, until, URGENT, "until", NoAgent), [NoOp EXCEPT !.op = "run"])
  /\ pc' = "run"
  /\ UNCHANGED <<variant, until, monitor, scen>>

\* one step of simpy's loop: pop the next event and resume its process
Step ==
  /\ pc = "run"
  /\ queue # {}
  /\ LET e == NextEvent(queue)
         R0 == [Env EXCEPT !.queue = @ \ {e}, !.now = e.t]
     IN CASE e.kind = "until" ->
               /\ Commit(R0, [NoOp EXCEPT !.op = "stop"])
               /\ pc' = "done"
               /\ UNCHANGED monitor
          [] e.kind = "monitor" ->
               LET r == MonitorRun(R0, monitor)
               IN /\ monitor' = [monitor EXCEPT !.tally = r.tally]
                  /\ Commit(r.env, [NoOp EXCEPT !.op = "sample"])
                  /\ pc' = IF r.env.err = "ok" THEN "run" ELSE "failed"
          [] e.kind = "agent" ->
               \E done \in DoneSets(R0, Target(R0, e.h)) :
                 LET R1 == Body(R0, e.h, done)
                     R2 == IF R1.err = "ok" /\ ~Returned(R1, e.h)
                           THEN Timeout(R1, Delay(R1, e.h), "agent", e.h)
                           ELSE R1
                 IN /\ Commit(R2, [NoOp EXCEPT !.op = "resume", !.agent = e.h,
                                               !.key = agents[e.h].id])
                    /\ pc' = IF R1.err = "ok" THEN "run" ELSE "failed"
                    /\ UNCHANGED monitor
  /\ UNCHANGED <<variant, until, scen>>

NextRun ==
  \/ InstallItem
  \/ SetupAgents
  \/ NewEnvironmentAgent
  \/ NewLoggingAgentOp
  \/ NewStateMonitor
  \/ Run
  \/ Step

SpecRun == InitRun /\ [][NextRun]_vars

\* ------------------------------------------------------- claims
Range(f) == {f[i] : i \in DOMAIN f}

\* the key holds an agent, as get(key) tells
Occupied(R, key) == GetItem(R, key).err = "ok" /\ GetItem(R, key).val.kind = "obj"

\* C1: after set(k, a) succeeded, an immediately following get(k) returns the very
\* same agent object a, in every registry variant.
C1_SetThenGet ==
  (last.op = "set" /\ last.err = "ok")
    => GetItem(Env, last.key) = [err |-> "ok", val |-> ObjVal(last.agent)]

\* C2: set(k, a) on a key that already holds an agent fails, and leaves the
\* registry's contents and the scheduled processes as they were.
C2_DuplicateSetFails ==
  [][(last'.op = "set" /\ Occupied(Env, last'.key))
       => (last'.err # "ok" /\ node' = node /\ adj' = adj /\ adjAgent' = adjAgent
           /\ {e \in queue' : e.h # last'.agent} = queue)]_vars

\* C3: in every reachable registry state filter(None) succeeds and returns exactly
\* len(registry) elements.
C3_FilterNoneIsLen ==
  HasFilter(Env)
    => /\ Filter(Env, NoState).err = "ok"
       /\ EnvLen(Env).err = "ok"
       /\ Len(Filter(Env, NoState).val) = EnvLen(Env).val

\* the states the registered agents hold, and the states a caller may ask for
HeldStates(R) ==
  {R.agents[v.agent].state : v \in {w \in Range(AgentsProp(R).val) : HasState(w)}}
QueryStates(R) == {State(i) : i \in StateIds} \cup (HeldStates(R) \ {NoState})
AllHaveState(R) ==
  \A v \in Range(AgentsProp(R).val) : HasState(v) /\ R.agents[v.agent].state # NoState

\* C4: whenever filter answers, filter(s) is a subset of filter(None) for every
\* state s; and when every registered agent has a state, the filter(s) of the states
\* the agents hold together are filter(None), no agent being listed under two states
\* of different identifiers.
C4_FilterPartition ==
  LET all == Filter(Env, NoState)
      F(st) == Filter(Env, st)
  IN (HasFilter(Env) /\ all.err = "ok")
       => /\ \A st \in QueryStates(Env) :
               F(st).err = "ok"
                 => Range(F(st).val) \subseteq Range(all.val) /\ Len(F(st).val) <= Len(all.val)
          /\ AllHaveState(Env)
               => /\ \A st \in HeldStates(Env) : F(st).err = "ok"
                  /\ UNION {Range(F(st).val) : st \in HeldStates(Env)} = Range(all.val)
                  /\ \A s1, s2 \in HeldStates(Env) :
                       ~StateEq(s1, s2) => Range(F(s1).val) \cap Range(F(s2).val) = {}

\* two registered agents holding states of different identifiers are filtered apart
C4_Witness ==
  /\ HasFilter(Env)
  /\ Filter(Env, NoState).err = "ok"
  /\ AllHaveState(Env)
  /\ \E s1, s2 \in HeldStates(Env) :
       /\ ~StateEq(s1, s2)
       /\ Filter(Env, s1).val # <<>>
       /\ Filter(Env, s2).val # <<>>
       /\ Len(Filter(Env, s1).val) < Len(Filter(Env, NoState).val)

\* C5: filter(state) returns every registered agent whose current State has the
\* identifier of the argument, and only those, private copies included.
C5_FilterByIdentifier ==
  \A i \in StateIds :
    (HasFilter(Env) /\ Filter(Env, State(i)).err = "ok")
      => Range(Filter(Env, State(i)).val)
           = {v \in Range(AgentsProp(Env).val) : Env.agents[v.agent].state.id = i}

\* C6: after run(until=T) returned, with a monitor of interval I created at
\* start_time, every tracked State's series has one entry per sampling time
\* start_time + k*I < T: floor((T - start_time) / I) entries when I divides
\* T - start_time, one more otherwise.
C6_SeriesLength ==
  (pc = "done" /\ monitor.on)
    => \A i \in StateIds :
         LET span == until - scen.start
             fl == span \div monitor.interval
         IN Len(monitor.tally[i]) = IF span % monitor.interval = 0 THEN fl ELSE fl + 1

\* a finished run whose series is one longer than the floor
C6_Witness ==
  /\ pc = "done"
  /\ monitor.on
  /\ (until - scen.start) % monitor.interval # 0
  /\ Len(monitor.tally[1]) = 2

\* C7: whenever the monitor is suspended, and after the run ended, the series of
\* all tracked States have the same length.
C7_LockStep ==
  monitor.on => \A i, j \in StateIds : Len(monitor.tally[i]) = Len(monitor.tally[j])

\* a finished run with three samples, during which a node was removed and the
\* count of a state changed
C7_Witness ==
  /\ pc = "done"
  /\ monitor.on
  /\ Len(monitor.tally[1]) = 3
  /\ \E i \in StateIds : monitor.tally[i][1] # monitor.tally[i][3]
  /\ Cardinality(DOMAIN node) < Len(agents)

\* C8: 4-node ring, states A and B alternating by node parity, behaviours that
\* never change state, a StateMonitor of interval 1, run(until=3): the series are
\* [2,2,2] for A and [2,2,2] for B.
C8_RingScenario ==
  (/\ pc \in {"done", "failed"}
   /\ adj = Ring(4)
   /\ scen.mode = "alternate" /\ scen.beh0 = "noop" /\ scen.behOther = "noop"
   /\ ~scen.envAgent
   /\ scen.start = 0 /\ until = 3
   /\ monitor.on /\ monitor.interval = 1)
    => monitor.tally[1] = <<2, 2, 2>> /\ monitor.tally[2] = <<2, 2, 2>>

\* C9: deleting a key that holds an agent makes the following filter(None) succeed
\* and return exactly one element fewer than before the removal.
C9_RemovalDropsOne ==
  [][(last'.op = "del" /\ HasFilter(Env) /\ Occupied(Env, last'.key))
       => /\ Filter(Env, NoState)'.err = "ok"
          /\ Filter(Env, NoState).err = "ok"
          /\ Len(Filter(Env, NoState)'.val) = Len(Filter(Env, NoState).val) - 1]_vars

\* C10: the behaviour of an agent whose node was removed is never executed again.
C10_NoResumeAfterRemoval ==
  [][~(last'.op = "resume" /\ nops' = nops + 1 /\ last'.key # NoId
       /\ last'.key \notin DOMAIN node)]_vars

\* the process of event f was registered before the process of event e: agents
\* register in the order of their construction, the monitor after the agents that
\* existed when it was constructed
RegisteredBefore(f, e) ==
  CASE f.kind = "agent" /\ e.kind = "agent" -> f.h < e.h
    [] f.kind = "agent" /\ e.kind = "monitor" -> f.h <= monitor.after
    [] f.kind = "monitor" /\ e.kind = "agent" -> e.h > monitor.after
    [] OTHER -> FALSE

\* C11: when a process is resumed at a time, no process registered before it still
\* waits for a resumption at that same time; and the time of a resumption is never
\* before the time of the previous one.
C11_RegistrationOrder ==
  [][(pc = "run" /\ nops' = nops + 1 /\ last'.op \in {"resume", "sample"})
       => LET e == NextEvent(queue)
          IN /\ now' >= now
             /\ \A f \in queue \ {e} :
                  (f.t = e.t /\ f.kind # "until") => ~RegisteredBefore(f, e)]_vars

\* C12: building is a function of the inputs: whatever order the loop of populate
\* takes the slots in, the registry, the agents and the queue of scheduled
\* processes come out as they did, and no two scheduled events tie for the next
\* dispatch.
C12_Deterministic ==
  [][(last'.op = "populate" /\ last'.err = "ok" /\ nops' = nops + 1)
       => LET exclude == IF last'.key = NoId THEN {} ELSE {last'.key}
          IN /\ \A e, f \in queue' :
                  (e.t = f.t /\ e.prio = f.prio /\ e.eid = f.eid) => e = f
             /\ \A o \in IterOrders(FillList(Env, exclude), scen.keys) :
                  LET R == Populate(Env, State(NumStateIds), o)
                  IN R.node = node' /\ R.agents = agents' /\ R.queue = queue']_vars

\* C13: env.now never decreases, starts at initial_time and never exceeds the
\* until bound of run.
C13_TimeMonotone ==
  [][now' >= now /\ scen.start <= now /\ now' <= until]_vars

\* a run over the longest span has returned, the clock standing at until after
\* resumptions at several times
C13_Witness ==
  /\ pc = "done"
  /\ now = until
  /\ until = scen.start + MaxSpan
  /\ last.op = "stop"
  /\ \E e \in queue : e.kind = "agent" /\ e.t = until

\* C14: registering an agent the registry already holds fails, whatever the key.
C14_RegisterOnce ==
  [][(last'.op = "setagain" /\ nops' = nops + 1) => last'.err # "ok"]_vars

\* the exclude argument of the populate that `l` records
ExcludeOf(l) == IF l.key = NoId THEN {} ELSE {l.key}

\* C15: populate on a registry whose target slots hold no agent succeeds; every
\* slot not in exclude then holds a newly created agent in the initial state with
\* one scheduled process, and every slot in exclude is as it was.
C15_PopulateFills ==
  [][(/\ last'.op = "populate" /\ nops' = nops + 1
      /\ \A k \in FillList(Env, ExcludeOf(last')) : node[k].kind # "obj")
       => /\ last'.err = "ok"
          /\ DOMAIN node' = DOMAIN node
          /\ \A k \in FillList(Env, ExcludeOf(last')) :
               /\ node'[k].kind = "obj"
               /\ node'[k].agent > Len(agents)
               /\ agents'[node'[k].agent].state = State(NumStateIds)
               /\ Cardinality({e \in queue' : e.h = node'[k].agent}) = 1
               /\ \A j \in FillList(Env, ExcludeOf(last')) :
                    node'[j].agent = node'[k].agent => j = k
          /\ \A k \in (DOMAIN node) \cap ExcludeOf(last') :
               node'[k] = node[k]]_vars

\* C16: populate on a registry in which a target slot already holds an agent fails,
\* replaces no agent and schedules no process.
C16_PopulateOccupiedFails ==
  [][(/\ last'.op = "populate" /\ nops' = nops + 1
      /\ \E k \in FillList(Env, ExcludeOf(last')) : node[k].kind = "obj")
       => /\ last'.err # "ok"
          /\ node' = node
          /\ queue' = queue]_vars

\* C17: in the graph-backed registries, set(node_id, agent) with a node_id that is
\* no node of the graph fails, adds no node and leaves no process scheduled for
\* the agent.
C17_SetOnMissingNodeFails ==
  [][(/\ last'.op = "set" /\ nops' = nops + 1
      /\ variant \in {"core_net", "env_net"}
      /\ last'.key \notin DOMAIN node /\ last'.key \notin DOMAIN adj)
       => /\ last'.err # "ok"
          /\ DOMAIN node' = DOMAIN node
          /\ DOMAIN adj' = DOMAIN adj
          /\ \A e \in queue' : e.h # last'.agent]_vars

\* C18: in the graph-backed registries, deleting an existing node removes the node,
\* its agent and every edge touching it, leaves every other node, agent and edge
\* as they were, and afterwards no neighbour query returns the removed agent.
C18_DeleteNodeFrame ==
  [][(/\ last'.op = "del" /\ nops' = nops + 1
      /\ variant \in {"core_net", "env_net"}
      /\ last'.key \in DOMAIN node /\ last'.key \in DOMAIN adj)
       => LET n == last'.key
          IN /\ last'.err = "ok"
             /\ DOMAIN node' = (DOMAIN node) \ {n}
             /\ DOMAIN adj' = (DOMAIN adj) \ {n}
             /\ \A u \in (DOMAIN node) \ {n} : node'[u] = node[u]
             /\ \A u \in (DOMAIN adj) \ {n} :
                  adj'[u] = adj[u] \ {n} /\ adjAgent'[u] = adjAgent[u]
             /\ agents' = agents
             /\ variant = "env_net"
                  => \A u \in (DOMAIN node) \ {n} :
                       (node[u].agent # NoAgent
                        /\ GetNeighboringAgents(Env, node[u].agent, 0)'.err = "ok")
                         => \A v \in Range(GetNeighboringAgents(Env, node[u].agent, 0)'.val) :
                              v.agent # node[n].agent]_vars

\* C19 (as claimed): in the flat registries, get and delete on a key that holds no
\* agent fail and leave the registry as it was.
C19_NoAgentKeyFails ==
  [][(nops' = nops + 1 /\ variant \in {"core_flat", "env_flat"})
       => /\ \A key \in Keys : ~Occupied(Env, key) => GetItem(Env, key).err # "ok"
          /\ (last'.op = "del" /\ ~Occupied(Env, last'.key))
               => (last'.err # "ok" /\ node' = node /\ queue' = queue)]_vars

\* C19: in the flat registries, get and delete on a key that is absent from the
\* structure fail with KeyError and leave the registry, the agents and the
\* scheduled processes as they were; a second delete of a key therefore fails.
C19_AbsentKeyFails ==
  [][(nops' = nops + 1 /\ variant \in {"core_flat", "env_flat"})
       => /\ \A key \in Keys :
               key \notin DOMAIN node => GetItem(Env, key).err = "KeyError"
          /\ (last'.op = "del" /\ last'.key \notin DOMAIN node)
               => /\ last'.err = "KeyError"
                  /\ node' = node /\ agents' = agents /\ queue' = queue]_vars

\* a key was set, deleted, and deleted again: the second delete failed
C19_Witness ==
  /\ variant \in {"core_flat", "env_flat"}
  /\ nops = 3
  /\ last.op = "del" /\ last.err = "KeyError"
  /\ last.key \notin DOMAIN node
  /\ \E h \in 1 .. Len(agents) :
       agents[h].id = last.key /\ \E e \in queue : e.h = h

\* the events of the queue that resume agent processes other than those of h
AgentEventsBut(q, h) == {e \in q : e.kind = "agent" /\ e.h # h}

\* C20: a resumption of StateMonitor.run or of BaseLoggingAgent.run changes neither
\* the graph's nodes and edges, nor the agent under any key, nor any agent's state,
\* nor the scheduled agent processes; it changes only the monitor's series (the
\* logging agent's state_history) and the sampler's own next timeout.
C20_SamplingIsPureRead ==
  [][(nops' = nops + 1 /\ pc = "run")
       => /\ last'.op = "sample"
               => /\ node' = node /\ adj' = adj /\ adjAgent' = adjAgent
                  /\ agents' = agents
                  /\ AgentEventsBut(queue', NoAgent) = AgentEventsBut(queue, NoAgent)
          /\ (last'.op = "resume" /\ agents[last'.agent].beh = "logger")
               => /\ node' = node /\ adj' = adj /\ adjAgent' = adjAgent
                  /\ monitor' = monitor
                  /\ Len(agents') = Len(agents)
                  /\ \A h \in 1 .. Len(agents) :
                       /\ h # last'.agent => agents'[h] = agents[h]
                       /\ agents'[h].state = agents[h].state
                  /\ AgentEventsBut(queue', last'.agent)
                       = AgentEventsBut(queue, last'.agent)]_vars

\* a run in which the monitor has sampled and the logging agent has recorded
\* snapshots while agent processes were pending and an agent had changed state
C20_Witness ==
  /\ pc = "run"
  /\ last.op = "sample" /\ last.err = "ok"
  /\ Len(monitor.tally[1]) >= 2
  /\ AgentEventsBut(queue, NoAgent) # {}
  /\ \E h \in 1 .. Len(agents) :
       /\ agents[h].beh = "logger"
       /\ Cardinality(DOMAIN agents[h].state_history) >= 2
  /\ \E h \in 1 .. Len(agents) : agents[h].beh = "flip"

\* the counts a monitor tracking every State would append when sampling R
CountsOf(R) == SampleStates(R, [i \in StateIds |-> State(i)], [i \in StateIds |-> <<>>])

AdjacentAgents(R, h, state_id) ==
  {ObjVal(R.node[i].agent) :
     i \in {j \in R.adj[R.agents[h].id] \cap DOMAIN R.node :
              /\ R.node[j].agent # NoAgent
              /\ state_id # 0 => R.agents[R.node[j].agent].state.id = state_id}}

\* C22: a resumption in which an agent queries its neighbours succeeds and changes
\* neither the graph nor any agent; and for that agent, at that time, the query
\* returns, for every state filter, exactly the agents on the nodes adjacent to
\* its own node whose state matches.
C22_NeighborQuery ==
  [][(/\ nops' = nops + 1 /\ pc = "run" /\ last'.op = "resume"
      /\ agents[last'.agent].beh = "query")
       => LET h == last'.agent
          IN /\ last'.err = "ok"
             /\ node' = node /\ adj' = adj /\ adjAgent' = adjAgent /\ agents' = agents
             /\ \A state_id \in {0} \cup StateIds :
                  LET r == GetNeighboringAgents(Env, h, state_id)
                  IN /\ r.err = "ok"
                     /\ Range(r.val) = AdjacentAgents(Env, h, state_id)
                     /\ Len(r.val) = Cardinality(AdjacentAgents(Env, h, state_id))]_vars

\* C23: every key under which the registry returns an agent holds an agent whose
\* recorded identity is that key.
C23_KeyIsIdentity ==
  \A key \in Keys :
    Occupied(Env, key) => agents[GetItem(Env, key).val.agent].id = key

\* agent h has a node identifier and a resumption of its process is scheduled
ScheduledOnGraph(h) ==
  agents[h].id # NoId /\ \E e \in queue : e.kind = "agent" /\ e.h = h

\* C24: once the agents are installed, every node that carries an agent carries
\* one whose id is that node, and every agent with a node id whose process is still
\* scheduled has a node of that id in the graph, which carries that very agent.
C24_GraphAgentConsistency ==
  pc \in {"ready", "run", "done"}
    => /\ \A i \in DOMAIN node :
            node[i].agent # NoAgent => agents[node[i].agent].id = i
       /\ \A h \in 1 .. Len(agents) :
            ScheduledOnGraph(h)
              => agents[h].id \in DOMAIN node /\ node[agents[h].id].agent = h

\* agent h has been resumed at time t and waits for its next resumption
ResumedAt(q, h, t) ==
  \E e \in q : e.kind = "agent" /\ e.h = h /\ e.t = t + TIMESTEP_DEFAULT

\* the flip agents that have assigned their state at time t
FlippedAt(q, t) ==
  {f \in 1 .. Len(agents) : agents[f].beh = "flip" /\ ResumedAt(q, f, t)}

\* C25: a state an agent assigns is what every later read of the same time step
\* observes.  (a) The resumption of an agent that assigns a new State leaves the
\* agent holding it, and list and the neighbour queries of the agents still to be
\* resumed, evaluated right after, return the agent under the new State and not
\* under the old one.  (b) Whenever another agent is resumed at a time at which an
\* agent has already assigned, its neighbour query, if it returns, returns that
\* agent under the State it now holds.  (c) The monitor sampling at such a time,
\* if list answers, appends counts that include that agent under the State it
\* now holds.
C25_SameStepVisibility ==
  [][(nops' = nops + 1 /\ pc = "run")
       => /\ (last'.op = "resume" /\ agents[last'.agent].beh = "flip")
               => \A new \in StateIds, f \in {last'.agent} :
                    new = (agents[f].state.id % NumStateIds) + 1
                      => /\ agents'[f].state = State(new)
                         /\ agents'[f].state # agents[f].state
                         /\ EnvNetList(Env', State(new)).err = "ok"
                              => /\ ObjVal(f) \in Range(EnvNetList(Env', State(new)).val)
                                 /\ ObjVal(f) \notin Range(EnvNetList(Env', agents[f].state).val)
                         /\ \A g \in 1 .. Len(agents) :
                              (/\ g # f /\ agents[g].id # NoId /\ agents[f].id \in DOMAIN node
                               /\ GetNeighboringAgents(Env', g, new).err = "ok"
                               /\ agents[f].id \in adj[agents[g].id])
                                => /\ ObjVal(f) \in Range(GetNeighboringAgents(Env', g, new).val)
                                   /\ ObjVal(f) \notin
                                        Range(GetNeighboringAgents(Env', g, agents[f].state.id).val)
          /\ (last'.op = "resume" /\ agents[last'.agent].beh = "query" /\ last'.err = "ok")
               => \A f \in FlippedAt(queue, now') :
                    LET g == last'.agent
                        r == GetNeighboringAgents(Env, g, agents[f].state.id)
                    IN (agents[f].id \in adj[agents[g].id] /\ node[agents[f].id].agent = f)
                         => r.err = "ok" /\ ObjVal(f) \in Range(r.val)
          /\ (last'.op = "sample" /\ last'.err = "ok")
               => \A f \in FlippedAt(queue, now') :
                    (agents[f].id \in DOMAIN node /\ node[agents[f].id].agent = f)
                      => LET s == agents[f].state
                             r == EnvNetList(Env, s)
                             series == monitor'.tally[s.id]
                         IN /\ ObjVal(f) \in Range(r.val)
                            /\ series[Len(series)] = Len(r.val)
                            /\ series[Len(series)] >= 1]_vars

\* at one time after the start, an agent has assigned its state, another agent has
\* queried its neighbours, and the monitor has then sampled and counted the first
\* agent under its new State
C25_Witness ==
  /\ pc = "run"
  /\ now > scen.start
  /\ last.op = "sample" /\ last.err = "ok"
  /\ \E f \in FlippedAt(queue, now) :
       /\ node[agents[f].id].agent = f
       /\ ObjVal(f) \in Range(EnvNetList(Env, agents[f].state).val)
       /\ monitor.tally[agents[f].state.id][Len(monitor.tally[agents[f].state.id])] >= 1
       /\ \E g \in 1 .. Len(agents) :
            /\ agents[g].beh = "query"
            /\ ResumedAt(queue, g, now)
            /\ agents[f].id \in adj[agents[g].id]

\* ------------------------------------------------------- runs with zero timeouts
\* A trial whose monitor and logging agent may be given the interval 0.  simpy only
\* compares event ids, so this specification keeps every event's id as its rank
\* among the queued events, and it counts the operations modulo 2: a process that
\* is resumed again and again at one time then runs through a cycle of states.
RankEvents(R) ==
  [R EXCEPT !.queue = {[e EXCEPT !.eid = Cardinality({f \in R.queue : f.eid < e.eid})] :
                         e \in R.queue},
            !.eid = Cardinality(R.queue)]

CommitLive(R, l) ==
  /\ node' = R.node
  /\ adj' = R.adj
  /\ adjAgent' = R.adjAgent
  /\ agents' = R.agents
  /\ queue' = RankEvents(R).queue
  /\ eid' = RankEvents(R).eid
  /\ now' = R.now
  /\ last' = [l EXCEPT !.err = R.err]
  /\ nops' = (nops + 1) % 2

\* BaseMonitor(environment, interval): the constructor registers run()
BaseMonitor(R, interval) == Schedule(R, R.now, URGENT, "monitor", NoAgent)

\* one resumption of BaseMonitor.run: print(self.env.now); yield timeout(interval)
BaseMonitorRun(R, mon) == Timeout(R, mon.interval, "monitor", NoAgent)

\* run_trial on a ring: NetworkEnvironment(G.copy(), initial_time), agents whose run
\* yields timeout(TIMESTEP_DEFAULT) at each resumption
InitLive ==
  /\ variant = "env_net"
  /\ \E n \in 1 .. MaxKey :
       node = EmptyAttrs(n) /\ adj = Ring(n) /\ adjAgent = NoEntries(n)
  /\ agents = <<>>
  /\ queue = {}
  /\ eid = 0
  /\ scen \in [install : {"setup"}, mode : {"alternate"}, start : {0, MaxStart},
               beh0 : {"noop", "flip"}, behOther : {"noop"}, envAgent : {FALSE},
               logger : BOOLEAN, keys : {"int"}]
  /\ now = scen.start
  /\ until \in (now + 1) .. (now + MaxSpan)
  /\ pc = "build"
  /\ monitor = NoMonitor
  /\ last = NoOp
  /\ nops = 0

\* self.setup_network_agents()
LiveSetupAgents ==
  /\ pc = "build"
  /\ CommitLive(SetupNetworkAgents(Env, scen.mode, [i \in DOMAIN node |-> BehOf(i)]),
                [NoOp EXCEPT !.op = "setup"])
  /\ pc' = "ready"
  /\ UNCHANGED <<variant, until, monitor, scen>>

\* BaseLoggingAgent(environment=self.env, logging_interval=...), interval 0 included
LiveLoggingAgent ==
  \E logging_interval \in {0, TIMESTEP_DEFAULT} :
    /\ pc = "ready"
    /\ scen.logger
    /\ \A h \in 1 .. Len(agents) : agents[h].beh # "logger"
    /\ CommitLive(NewLoggingAgent(Env, logging_interval), [NoOp EXCEPT !.op = "logger"])
    /\ UNCHANGED <<variant, pc, until, monitor, scen>>

\* BaseMonitor(env, interval), constructed last, interval 0 included
LiveMonitor ==
  \E interval \in 0 .. MaxInterval :
    /\ pc = "ready"
    /\ ~monitor.on
    /\ ~scen.logger \/ \E h \in 1 .. Len(agents) : agents[h].beh = "logger"
    /\ monitor' = [NoMonitor EXCEPT !.on = TRUE, !.interval = interval,
                                    !.after = Len(agents)]
    /\ CommitLive(BaseMonitor(Env, interval), [NoOp EXCEPT !.op = "monitor"])
    /\ UNCHANGED <<variant, pc, until, scen>>

\* self.env.run(until=self.until)
LiveRun ==
  /\ pc = "ready"
  /\ ~scen.logger \/ \E h \in 1 .. Len(agents) : agents[h].beh = "logger"
  /\ CommitLive(Schedule(Env, until, URGENT, "until", NoAgent), [NoOp EXCEPT !.op = "run"])
  /\ pc' = "run"
  /\ UNCHANGED <<variant, until, monitor, scen>>

\* one step of simpy's loop
LiveStep ==
  /\ pc = "run"
  /\ queue # {}
  /\ LET e == NextEvent(queue)
         R0 == [Env EXCEPT !.queue = @ \ {e}, !.now = e.t]
     IN CASE e.kind = "until" ->
               /\ CommitLive(R0, [NoOp EXCEPT !.op = "stop"])
               /\ pc' = "done"
          [] e.kind = "monitor" ->
               /\ CommitLive(BaseMonitorRun(R0, monitor), [NoOp EXCEPT !.op = "sample"])
               /\ pc' = "run"
          [] e.kind = "agent" ->
               LET R1 == Body(R0, e.h, {})
                   R2 == IF R1.err = "ok" THEN Timeout(R1, Delay(R1, e.h), "agent", e.h)
                         ELSE R1
               IN /\ CommitLive(R2, [NoOp EXCEPT !.op = "resume", !.agent = e.h,
                                                 !.key = agents[e.h].id])
                  /\ pc' = IF R1.err = "ok" THEN "run" ELSE "failed"
  /\ UNCHANGED <<variant, until, monitor, scen>>

NextLive ==
  \/ LiveSetupAgents
  \/ LiveLoggingAgent
  \/ LiveMonitor
  \/ LiveRun
  \/ LiveStep

\* run_trial executes its statements one after the other and simpy's run loop
\* steps as long as an event is queued: no enabled step is postponed forever
SpecLive == InitLive /\ [][NextLive]_vars /\ WF_vars(NextLive)

\* C26: a run whose processes all yield timeouts of duration >= 0, the durations 0
\* of a monitor or of the logging agent included, eventually returns with the
\* clock at until.
C26_RunTerminates == <>(pc = "done" /\ now = until)

\* the keys under which the registry holds an agent
AgentKeys(R) ==
  {k \in DOMAIN R.node : R.node[k].agent # NoAgent}
    \cup {k \in DOMAIN R.adjAgent : R.adjAgent[k] # NoAgent}

\* C27: in every reachable registry state len(environment) answers, and it is the
\* number of keys under which an agent is registered: 0 for a new environment and
\* for a graph whose nodes hold no agents, nodes without an agent not counted.
C27_LenCountsAgents ==
  EnvLen(Env).err = "ok" /\ EnvLen(Env).val = Cardinality(AgentKeys(Env))

\* C28: a resumption in which the environment agent calls add_node creates an
\* agent whose id was no node of the graph before, leaves every existing node with
\* the agent it had, and makes the graph one node larger.
C28_AddNodeFreshId ==
  [][(/\ nops' = nops + 1 /\ pc = "run" /\ last'.op = "resume"
      /\ agents[last'.agent].beh = "adder"
      /\ Len(agents') = Len(agents) + 1)
       => /\ agents'[Len(agents')].id \notin DOMAIN node
          /\ \A i \in DOMAIN node : i \in DOMAIN node' /\ node'[i] = node[i]
          /\ Cardinality(DOMAIN node') = Cardinality(DOMAIN node) + 1]_vars

\* the pending resumptions of the processes of agent h
ProcessesOf(q, h) == {e \in q : e.kind = "agent" /\ e.h = h}

\* C29: every agent, the logging agent and the monitor have at most one pending
\* resumption at any moment: each has one process.
C29_OneProcessEach ==
  /\ \A h \in 1 .. Len(agents) : Cardinality(ProcessesOf(queue, h)) <= 1
  /\ Cardinality({e \in queue : e.kind = "monitor"}) <= 1

\* ------------------------------------------------------- agents without run
\* env[key] = Agent(key) for an agent class that does not override run.  An agent
\* of agents.py registers itself when constructed: its constructor raises and the
\* assignment is never reached.
SetRunlessOp ==
  \E key \in Keys :
    /\ nops < MaxOps
    /\ LET h == Len(agents) + 1
           R1 == NewAgent(Env, key, NoState, "none")
           R2 == IF R1.err = "ok" THEN SetItem(R1, key, h) ELSE R1
       IN Commit(R2, [NoOp EXCEPT !.op = "set", !.key = key, !.agent = h])
    /\ UNCHANGED <<variant, pc, until, monitor, scen>>

NextSet == SetItemOp \/ SetRunlessOp \/ DelItemOp

\* a registry under set and delete, with agents of both kinds
SpecSet == Init /\ [][NextSet]_vars

\* C30: after every set(key, agent), failed or not, the agent is in the registry
\* if and only if a process of it is scheduled; a set that failed leaves the
\* registry without the agent.
C30_SetIsAtomic ==
  [][(last'.op = "set" /\ nops' = nops + 1)
       => /\ (last'.agent \in Registered(Env)')
               <=> (\E e \in queue' : e.kind = "agent" /\ e.h = last'.agent)
          /\ last'.err # "ok" => last'.agent \notin Registered(Env)']_vars

\* C31: the snapshot the logging agent has just recorded at the current time has
\* one entry per node of the graph, keyed by the node's own identifier, holding
\* the state (by identifier) of the agent of that node.
C31_SnapshotKeyedByNode ==
  (/\ pc = "run" /\ last.op = "resume" /\ last.err = "ok"
   /\ agents[last.agent].beh = "logger")
    => LET history == agents[last.agent].state_history
       IN /\ now \in DOMAIN history
          /\ DOMAIN history[now] = DOMAIN node
          /\ \A i \in DOMAIN node :
               StateEq(history[now][i], agents[node[i].agent].state)

====
